---- MODULE Spec2Model ----
(***************************************************************************)
(* A model of read-temperature (src/src/main.rs, src/src/error.rs): the    *)
(* line codec of the serial thermometer, the serial sensor client, the two *)
(* pollers, the reading queue and the sink writer.                         *)
(*                                                                         *)
(* Bytes are one-character strings.  f32 values read from the wire are     *)
(* kept as decimals [kind, m, e] (m / 10^e, trailing zeros stripped): the  *)
(* literals the byte alphabet can spell have fewer than 7 significant      *)
(* digits, and within that range distinct decimals are distinct f32s.      *)
(***************************************************************************)
EXTENDS Integers, Sequences, FiniteSets, TLC

\* ------------------------------------------------------------- bounds
\* longest byte buffer fed to the decoder
MaxLen == 6
\* decode calls made on one buffer
MaxCalls == 2

\* ------------------------------------------------------------- bytes
NL == "\n"
SP == " "
\* a byte that is not valid UTF-8 (0xFF)
InvalidByte == "<FF>"
\* the bytes the decoder is run on: a digit, the letters of "nan", the two
\* whitespace bytes and a byte outside UTF-8 (no '.', sign or exponent: the
\* numbers spelled are 1, 11, 111, ...)
Digits == {"1"}
Bytes == Digits \cup {"n", "a", SP, NL, InvalidByte}
Whitespace == {SP, NL}

BufsUpTo(n) == UNION {[1..k -> Bytes] : k \in 0..n}

\* ------------------------------------------------------------- f32
NaN == [kind |-> "nan", m |-> 0, e |-> 0]
Inf(neg) == [kind |-> "inf", m |-> IF neg THEN -1 ELSE 1, e |-> 0]
RECURSIVE Norm(_, _)
Norm(m, e) == IF e > 0 /\ m % 10 = 0 THEN Norm(m \div 10, e - 1)
              ELSE [kind |-> "num", m |-> m, e |-> e]
IsFinite(v) == v.kind = "num"

DigitVal(c) == IF c = "1" THEN 1 ELSE 0
RECURSIVE DigitsVal(_)
DigitsVal(s) == IF s = <<>> THEN 0
                ELSE 10 * DigitsVal(SubSeq(s, 1, Len(s) - 1)) + DigitVal(s[Len(s)])
AllDigits(s) == \A i \in 1..Len(s) : s[i] \in Digits
Without(s, i) == SubSeq(s, 1, i - 1) \o SubSeq(s, i + 1, Len(s))

\* <f32 as FromStr>::from_str on the unsigned part of a token: None, or Some(v)
None == [some |-> FALSE]
Some(v) == [some |-> TRUE, v |-> v]
from_str_unsigned(s, neg) ==
    IF s \in {<<"n", "a", "n">>} THEN Some(NaN)
    ELSE IF s \in {<<"i", "n", "f">>, <<"i", "n", "f", "i", "n", "i", "t", "y">>}
    THEN Some(Inf(neg))
    ELSE LET dots == {i \in 1..Len(s) : s[i] = "."}
             sgn == IF neg THEN -1 ELSE 1
         IN  IF dots = {}
             THEN IF s # <<>> /\ AllDigits(s)
                  THEN Some(Norm(sgn * DigitsVal(s), 0)) ELSE None
             ELSE IF Cardinality(dots) = 1
             THEN LET d == CHOOSE i \in dots : TRUE
                      ds == Without(s, d)
                  IN  IF ds # <<>> /\ AllDigits(ds)
                      THEN Some(Norm(sgn * DigitsVal(ds), Len(s) - d)) ELSE None
             ELSE None

f32_from_str(s) ==
    IF s # <<>> /\ s[1] \in {"+", "-"}
    THEN from_str_unsigned(Tail(s), s[1] = "-")
    ELSE from_str_unsigned(s, FALSE)

\* ------------------------------------------------------------- codec
\* str::split_whitespace: the maximal runs of non-whitespace, in order
RECURSIVE split_whitespace(_)
split_whitespace(s) ==
    IF s = <<>> THEN <<>>
    ELSE IF s[1] \in Whitespace THEN split_whitespace(Tail(s))
    ELSE LET ws == {i \in 1..Len(s) : s[i] \in Whitespace}
             n == IF ws = {} THEN Len(s) + 1
                  ELSE CHOOSE i \in ws : \A j \in ws : i <= j
         IN  <<SubSeq(s, 1, n - 1)>> \o split_whitespace(SubSeq(s, n, Len(s)))

\* it.next().and_then(|s| f32::from_str(s).ok())
NextFloat(it) == IF it = <<>> THEN None ELSE f32_from_str(it[1])

SensorReading(temperature, humidity) ==
    [temperature |-> temperature, humidity |-> humidity]

\* variant: the first token taken as the temperature
parse_response_swapped(s) ==
    LET it == split_whitespace(s)
        temperature == NextFloat(it)
        humidity == NextFloat(IF it = <<>> THEN it ELSE Tail(it))
    IN  IF humidity.some /\ temperature.some
        THEN Some(SensorReading(temperature.v, humidity.v))
        ELSE None

parse_response(s) ==
    LET it == split_whitespace(s)
        humidity == NextFloat(it)
        temperature == NextFloat(IF it = <<>> THEN it ELSE Tail(it))
    IN  IF humidity.some /\ temperature.some
        THEN Some(SensorReading(temperature.v, humidity.v))
        ELSE None

\* str::from_utf8(line).ok()
from_utf8(line) ==
    IF \E i \in 1..Len(line) : line[i] = InvalidByte THEN None ELSE Some(line)

OkNone == [tag |-> "OkNone"]
OkSome(r) == [tag |-> "OkSome", item |-> r]
Err(msg) == [tag |-> "Err", msg |-> msg]

\* src.iter().position(|b| *b == b'\n'): 0 when there is none, else the
\* 1-based index of the first newline (n + 1 of the code)
position_newline(src) ==
    LET nls == {i \in 1..Len(src) : src[i] = NL}
    IN  IF nls = {} THEN 0 ELSE CHOOSE i \in nls : \A j \in nls : i <= j

\* variant: a line that fails to parse is left in the buffer
decode_keeps_line(src) ==
    LET n == position_newline(src)
    IN  IF n # 0
        THEN LET line == SubSeq(src, 1, n)
                 u == from_utf8(line)
                 r == IF u.some THEN parse_response(u.v) ELSE None
             IN  [ret |-> IF r.some THEN OkSome(r.v) ELSE Err("Invalid string"),
                  src |-> IF r.some THEN SubSeq(src, n + 1, Len(src)) ELSE src]
        ELSE [ret |-> OkNone, src |-> src]

\* variant: a buffer without a newline is cleared
decode_drops_partial(src) ==
    LET n == position_newline(src)
    IN  IF n # 0
        THEN LET line == SubSeq(src, 1, n)
                 u == from_utf8(line)
                 r == IF u.some THEN parse_response(u.v) ELSE None
             IN  [ret |-> IF r.some THEN OkSome(r.v) ELSE Err("Invalid string"),
                  src |-> SubSeq(src, n + 1, Len(src))]
        ELSE [ret |-> OkNone, src |-> <<>>]

\* variant: everything up to the last newline is removed
decode_to_last_newline(src) ==
    LET nls == {i \in 1..Len(src) : src[i] = NL}
        n == position_newline(src)
        last == IF nls = {} THEN 0 ELSE CHOOSE i \in nls : \A j \in nls : j <= i
    IN  IF n # 0
        THEN LET line == SubSeq(src, 1, n)
                 u == from_utf8(line)
                 r == IF u.some THEN parse_response(u.v) ELSE None
             IN  [ret |-> IF r.some THEN OkSome(r.v) ELSE Err("Invalid string"),
                  src |-> SubSeq(src, last + 1, Len(src))]
        ELSE [ret |-> OkNone, src |-> src]

\* SensorCodec::decode: the value returned and the buffer left behind
decode(src) ==
    LET n == position_newline(src)
    IN  IF n # 0
        THEN LET line == SubSeq(src, 1, n)
                 u == from_utf8(line)
                 r == IF u.some THEN parse_response(u.v) ELSE None
             IN  [ret |-> IF r.some THEN OkSome(r.v) ELSE Err("Invalid string"),
                  src |-> SubSeq(src, n + 1, Len(src))]
        ELSE [ret |-> OkNone, src |-> src]

\* Decoder::decode_eof as SensorCodec inherits it: decode, and when that finds
\* no frame, an error if bytes are left
decode_eof(src) ==
    LET d == decode(src)
    IN  IF d.ret.tag # "OkNone" THEN d.ret
        ELSE IF d.src = <<>> THEN OkNone
        ELSE Err("bytes remaining on stream")

\* ------------------------------------------------------------- constants
\* Duration::from_secs(10) of both intervals, Duration::from_secs(6) of the
\* cycle deadline (seconds)
Interval == 10
\* variant: a deadline later than the next tick
TimeoutPastTick == Interval + 2
Timeout == 6

\* what one read of the serial port can bring in a system run, and the most
\* bytes the device sends in a cycle
WireChunks == {<<"1", SP, "1", NL>>, <<"1", SP>>, <<"1", NL>>}
MaxWire == 4
\* the last instant of a system run
MaxTime == 12
\* the worker threads of the runtime (Runtime::new(): one per core of the
\* host; a host of two cores or more)
WorkerThreads == 2

\* what co2mon's read() can return
Co2Values == {[temperature |-> Norm(215, 1), co2 |-> 400],
              [temperature |-> Norm(215, 1), co2 |-> 40000]}

VARIABLES
    buf,      \* the BytesMut handed to SensorCodec::decode (Framed's read buffer)
    hist,     \* the decode calls made so far: [before, ret, after]
    now,      \* seconds since run() created its interval
    spc,      \* serial poller: "tick" | "send" | "read" | "panicked"
    sNext,    \* deadline of the serial interval's next tick
    sDeadline,\* deadline of the running time::timeout
    port,     \* the serial port is open
    cpc,      \* CO2 poller: "off" | "tick" | "read" | "panicked"
    cNext,    \* deadline of the CO2 interval's next tick
    queue,    \* the unbounded channel
    wpc,      \* writer: "recv" | "get" | "query" | "done"
    cur,      \* the reading send_one holds
    sinkUp,   \* the database answers
    stats,    \* the rows inserted
    log,      \* the lines printed to the diagnostic stream (eprintln!)
    cyc,      \* per poller, its current or last cycle
    ticks,    \* per poller, the ticks fired
    sent,     \* every reading enqueued, in order
    taken,    \* every reading handed to send_one, in order, with its outcome
    timedOut  \* the serial cycles ended by the deadline

codecVars == <<buf, hist>>
serialVars == <<spc, sNext, sDeadline, port>>
co2Vars == <<cpc, cNext>>
writerVars == <<wpc, cur, stats, taken>>
vars == <<buf, hist, now, spc, sNext, sDeadline, port, cpc, cNext, queue, wpc,
          cur, sinkUp, stats, log, cyc, ticks, sent, taken, timedOut>>

Pollers == {"serial", "co2"}
NoCycle == [sched |-> -1, start |-> -1, end |-> -1, attempts |-> 0, enq |-> 0,
            outcome |-> "none"]
NoReading == [src |-> "none"]

\* ------------------------------------------------------------- readings
Thermometer(time, temperature, humidity) ==
    [src |-> "Thermometer", time |-> time, temperature |-> temperature,
     humidity |-> humidity]
Co2Meter(time, temperature, co2) ==
    [src |-> "Co2Meter", time |-> time, temperature |-> temperature, co2 |-> co2]

\* a queue entry: the reading, with the tick that produced it and its place
\* in the order of the sends
Entry(reading, tick) == [reading |-> reading, tick |-> tick, seq |-> Len(sent) + 1]

Line(who, msg, ref) == [who |-> who, msg |-> msg, ref |-> ref]

\* ------------------------------------------------------------- channel
\* the senders alive: run() holds tx for as long as its loop runs, and tx_
\* is held by the CO2 task, or by run() when no CO2 task was spawned
\* variant: no sender is kept
SendersDropped == {}
Senders == {"tx", "tx_"}

\* variant: a channel of capacity 1, whose send waits for room
SendBounded(e) ==
    /\ Len(queue) < 1
    /\ queue' = Append(queue, e)
    /\ sent' = Append(sent, e)

\* tx.send(reading) on the unbounded channel, the receiver alive: the reading
\* is queued at once
Send(e) ==
    /\ queue' = Append(queue, e)
    /\ sent' = Append(sent, e)

\* ------------------------------------------------------------- run(): start
\* co2mon::Sensor::open_default() succeeds (the CO2 task is spawned) or fails
\* (the error is printed and no CO2 task exists)
StartValues ==
    /\ now = 0
    /\ spc = "tick" /\ sNext = 0 /\ sDeadline = 0 /\ port = FALSE
    /\ cpc \in {"tick", "off"} /\ cNext = 0
    /\ queue = <<>>
    /\ wpc = "recv" /\ cur = NoReading
    /\ sinkUp \in BOOLEAN
    /\ stats = <<>>
    /\ log = IF cpc = "off" THEN {Line("run", "open_default", 0)} ELSE {}
    /\ cyc = [p \in Pollers |-> NoCycle]
    /\ ticks = [p \in Pollers |-> 0]
    /\ sent = <<>> /\ taken = <<>> /\ timedOut = {}

Init == /\ buf = <<>> /\ hist = <<>>
        /\ StartValues


\* ------------------------------------------------------------- runtime
\* sensor.read() is a blocking call made on a worker thread of the runtime:
\* the thread is lost to the runtime until the call returns.  The tasks other
\* than the CO2 task run, and the timer and I/O events that wake them are
\* delivered, as long as a worker thread is left
Blocked == IF cpc = "read" THEN 1 ELSE 0
\* variant: a runtime of a single thread
FreeWorkerOfOne == Blocked < 1
FreeWorker == Blocked < WorkerThreads

\* ------------------------------------------------------------- serial poller
\* what send_one stores: (x * 100.0).round() as i16, a saturating cast (NaN is 0)
RECURSIVE Pow10(_)
Pow10(n) == IF n = 0 THEN 1 ELSE 10 * Pow10(n - 1)
Abs(x) == IF x < 0 THEN -x ELSE x
RoundDiv(a, b) == LET q == (2 * Abs(a) + b) \div (2 * b) IN IF a < 0 THEN -q ELSE q
Clamp16(x) == IF x > 32767 THEN 32767 ELSE IF x < -32768 THEN -32768 ELSE x
Centi16(v) ==
    IF v.kind = "nan" THEN 0
    ELSE IF v.kind = "inf" THEN Clamp16(v.m * 32768)
    ELSE Clamp16(RoundDiv(v.m * 100, Pow10(v.e)))
\* co2 as i16: the low 16 bits, read as signed
U16AsI16(x) == IF x % 65536 >= 32768 THEN (x % 65536) - 65536 ELSE x % 65536

\* variant: the port outlives the cycle
EndCycleKeepsPort(outcome, enq) ==
    /\ spc' = "tick"
    /\ port' = port
    /\ buf' = <<>>
    /\ cyc' = [cyc EXCEPT !["serial"] =
                  [@ EXCEPT !.end = now, !.outcome = outcome, !.enq = @ + enq]]

\* the cycle's future completes or is dropped: the port and its Framed go
EndCycle(outcome, enq) ==
    /\ spc' = "tick"
    /\ port' = FALSE
    /\ buf' = <<>>
    /\ cyc' = [cyc EXCEPT !["serial"] =
                  [@ EXCEPT !.end = now, !.outcome = outcome, !.enq = @ + enq]]

\* tx.send(reading).unwrap() with the receiver gone: the send is Err, unwrap
\* panics and run() unwinds
Panic ==
    /\ spc' = "panicked"
    /\ port' = FALSE
    /\ buf' = <<>>
    /\ cyc' = [cyc EXCEPT !["serial"] = [@ EXCEPT !.end = now, !.outcome = "panicked"]]

\* lines 209-213, 81-84: the tick completes, the cycle starts under its
\* deadline, Sensor::call opens the port and starts the send
BeginCycle ==
    /\ sNext' = sNext + Interval
    /\ sDeadline' = now + Timeout
    /\ ticks' = [ticks EXCEPT !["serial"] = @ + 1]

NewCycle == [sched |-> sNext, start |-> now, end |-> -1, attempts |-> 1,
             enq |-> 0, outcome |-> "run"]

SerialTickOpen ==
    /\ FreeWorker
    /\ spc = "tick" /\ now >= sNext
    /\ BeginCycle
    /\ spc' = "send" /\ port' = TRUE
    /\ cyc' = [cyc EXCEPT !["serial"] = NewCycle]
    /\ UNCHANGED <<buf, hist, now, co2Vars, queue, writerVars, sinkUp, log, sent,
                   timedOut>>

\* open_native_async fails: call returns Err(Error::Serial), one is Ready(Err),
\* timeout returns Ok(Err(e)), which `if let Err(e)` does not match
SerialTickOpenErr ==
    /\ FreeWorker
    /\ spc = "tick" /\ now >= sNext
    /\ BeginCycle
    /\ spc' = "tick" /\ port' = FALSE
    /\ cyc' = [cyc EXCEPT !["serial"] =
                  [NewCycle EXCEPT !.end = now, !.outcome = "open failed"]]
    /\ UNCHANGED <<buf, hist, now, co2Vars, queue, writerVars, sinkUp, log, sent,
                   timedOut>>

\* serial.send(req).await completes
SerialSendOk ==
    /\ FreeWorker
    /\ spc = "send"
    /\ spc' = "read"
    /\ UNCHANGED <<buf, hist, now, sNext, sDeadline, port, co2Vars, queue,
                   writerVars, sinkUp, log, cyc, ticks, sent, timedOut>>

SerialSendErr ==
    /\ FreeWorker
    /\ spc = "send"
    /\ EndCycle("write failed", 0)
    /\ UNCHANGED <<hist, now, sNext, sDeadline, co2Vars, queue, writerVars,
                   sinkUp, log, ticks, sent, timedOut>>

\* lines 85-87, 214-221: bytes arrive, Framed decodes; a frame ends the call
SerialRecv ==
    /\ FreeWorker
    /\ spc = "read"
    /\ \E b \in {c \in WireChunks : Len(buf) + Len(c) <= MaxWire} :
         LET d == decode(buf \o b)
         IN  IF d.ret.tag = "OkNone"
             THEN /\ buf' = d.src
                  /\ UNCHANGED <<spc, port, cyc, queue, sent>>
             ELSE IF d.ret.tag = "OkSome"
             THEN LET time == now
                      reading == Thermometer(time, d.ret.item.temperature,
                                             d.ret.item.humidity)
                      e == Entry(reading, cyc["serial"].sched)
                  IN  IF wpc = "done"
                      THEN /\ Panic
                           /\ UNCHANGED <<queue, sent>>
                      ELSE /\ Send(e)
                           /\ EndCycle("ok", 1)
             ELSE /\ EndCycle(d.ret.msg, 0)
                  /\ UNCHANGED <<queue, sent>>
    /\ UNCHANGED <<hist, now, sNext, sDeadline, co2Vars, writerVars, sinkUp, log,
                   ticks, timedOut>>

\* the port's read fails: the stream yields Some(Err(e))
SerialReadErr ==
    /\ FreeWorker
    /\ spc = "read"
    /\ EndCycle("read failed", 0)
    /\ UNCHANGED <<hist, now, sNext, sDeadline, co2Vars, queue, writerVars,
                   sinkUp, log, ticks, sent, timedOut>>

\* the stream ends: Framed hands the bytes left to decode_eof, which yields
\* an error for a partial line, then None; None is "Read failed"
SerialEof ==
    /\ FreeWorker
    /\ spc = "read"
    /\ LET d == decode_eof(buf)
       IN  EndCycle(IF d.tag = "Err" THEN d.msg ELSE "Read failed", 0)
    /\ UNCHANGED <<hist, now, sNext, sDeadline, co2Vars, queue, writerVars,
                   sinkUp, log, ticks, sent, timedOut>>

\* line 223-225: the deadline passes first: the future is dropped, Elapsed printed
SerialTimeout ==
    /\ FreeWorker
    /\ spc \in {"send", "read"} /\ now >= sDeadline
    /\ EndCycle("timeout", 0)
    /\ log' = log \cup {Line("serial", "deadline has elapsed", cyc["serial"].sched)}
    /\ timedOut' = timedOut \cup {cyc["serial"].sched}
    /\ UNCHANGED <<hist, now, sNext, sDeadline, co2Vars, queue, writerVars,
                   sinkUp, ticks, sent>>

\* ------------------------------------------------------------- CO2 poller
\* lines 100-101: the tick completes and the blocking sensor.read() starts
Co2Tick ==
    /\ cpc = "tick" /\ now >= cNext
    /\ cNext' = cNext + Interval
    /\ cpc' = "read"
    /\ ticks' = [ticks EXCEPT !["co2"] = @ + 1]
    /\ cyc' = [cyc EXCEPT !["co2"] =
                  [sched |-> cNext, start |-> now, end |-> -1, attempts |-> 1,
                   enq |-> 0, outcome |-> "run"]]
    /\ UNCHANGED <<codecVars, now, serialVars, queue, writerVars, sinkUp, log,
                   sent, timedOut>>

\* lines 102-110: read() returns Ok
Co2ReadOk ==
    /\ cpc = "read"
    /\ \E r \in Co2Values :
         LET time == now
             e == Entry(Co2Meter(time, r.temperature, r.co2), cyc["co2"].sched)
         IN  IF wpc = "done"
             THEN /\ cpc' = "panicked"
                  /\ cyc' = [cyc EXCEPT !["co2"] =
                                [@ EXCEPT !.end = now, !.outcome = "panicked"]]
                  /\ UNCHANGED <<queue, sent>>
             ELSE /\ Send(e)
                  /\ cpc' = "tick"
                  /\ cyc' = [cyc EXCEPT !["co2"] =
                                [@ EXCEPT !.end = now, !.outcome = "ok", !.enq = @ + 1]]
    /\ UNCHANGED <<codecVars, now, serialVars, cNext, writerVars, sinkUp, log,
                   ticks, timedOut>>

\* variant: a failed read is tried again within the tick
Co2ReadErrRetry ==
    /\ cpc = "read"
    /\ cpc' = "read"
    /\ log' = log \cup {Line("co2", "read", cyc["co2"].sched)}
    /\ cyc' = [cyc EXCEPT !["co2"] = [@ EXCEPT !.attempts = @ + 1]]
    /\ cyc["co2"].attempts < 3
    /\ UNCHANGED <<codecVars, now, serialVars, cNext, queue, writerVars, sinkUp,
                   ticks, sent, timedOut>>

\* line 111: read() returns Err
Co2ReadErr ==
    /\ cpc = "read"
    /\ cpc' = "tick"
    /\ log' = log \cup {Line("co2", "read", cyc["co2"].sched)}
    /\ cyc' = [cyc EXCEPT !["co2"] = [@ EXCEPT !.end = now, !.outcome = "read failed"]]
    /\ UNCHANGED <<codecVars, now, serialVars, cNext, queue, writerVars, sinkUp,
                   ticks, sent, timedOut>>

\* ------------------------------------------------------------- sink writer
\* variant: the row is stamped when it is written
StoredAtWrite(reading) ==
    IF reading.src = "Thermometer"
    THEN [table |-> "stats", time |-> now,
          temperature |-> Centi16(reading.temperature),
          humidity |-> Centi16(reading.humidity)]
    ELSE [table |-> "stats2", time |-> now,
          temperature |-> Centi16(reading.temperature),
          co2 |-> U16AsI16(reading.co2)]

Stored(reading) ==
    IF reading.src = "Thermometer"
    THEN [table |-> "stats", time |-> reading.time,
          temperature |-> Centi16(reading.temperature),
          humidity |-> Centi16(reading.humidity)]
    ELSE [table |-> "stats2", time |-> reading.time,
          temperature |-> Centi16(reading.temperature),
          co2 |-> U16AsI16(reading.co2)]

Outcome(res) == [taken EXCEPT ![Len(taken)] = [@ EXCEPT !.outcome = res]]

\* variant: the head is read but left in the channel
WriterRecvPeek ==
    /\ wpc = "recv" /\ queue # <<>>
    /\ cur' = Head(queue)
    /\ queue' = queue
    /\ taken' = Append(taken, [entry |-> Head(queue), outcome |-> "pending"])
    /\ wpc' = "get"
    /\ UNCHANGED <<codecVars, now, serialVars, co2Vars, sinkUp, stats, log, cyc,
                   ticks, sent, timedOut>>

\* variant: the newest reading is taken first
WriterRecvNewest ==
    /\ wpc = "recv" /\ queue # <<>>
    /\ cur' = queue[Len(queue)]
    /\ queue' = SubSeq(queue, 1, Len(queue) - 1)
    /\ taken' = Append(taken, [entry |-> queue[Len(queue)], outcome |-> "pending"])
    /\ wpc' = "get"
    /\ UNCHANGED <<codecVars, now, serialVars, co2Vars, sinkUp, stats, log, cyc,
                   ticks, sent, timedOut>>

\* variant: the next reading is taken while a write is still in progress
WriterRecvSpawns ==
    /\ FreeWorker
    /\ wpc \in {"recv", "get", "query"} /\ queue # <<>>
    /\ cur' = Head(queue)
    /\ queue' = Tail(queue)
    /\ taken' = Append(taken, [entry |-> Head(queue), outcome |-> "pending"])
    /\ wpc' = "get"
    /\ UNCHANGED <<codecVars, now, serialVars, co2Vars, sinkUp, stats, log, cyc,
                   ticks, sent, timedOut>>

\* lines 170-171, 134: recv() yields the head, send_one asks the pool; with
\* the channel empty recv() waits, and is None once every sender is gone:
\* the loop and the task end, and the receiver is dropped
WriterRecv ==
    /\ FreeWorker
    /\ wpc = "recv"
    /\ IF queue # <<>>
       THEN /\ cur' = Head(queue)
            /\ queue' = Tail(queue)
            /\ taken' = Append(taken, [entry |-> Head(queue), outcome |-> "pending"])
            /\ wpc' = "get"
       ELSE /\ Senders = {}
            /\ wpc' = "done"
            /\ UNCHANGED <<cur, queue, taken>>
    /\ UNCHANGED <<codecVars, now, serialVars, co2Vars, sinkUp, stats, log, cyc,
                   ticks, sent, timedOut>>

\* pool.get().await is Ok: the insert is sent
WriterGetOk ==
    /\ FreeWorker
    /\ wpc = "get" /\ sinkUp
    /\ wpc' = "query"
    /\ UNCHANGED <<codecVars, now, serialVars, co2Vars, queue, cur, sinkUp, stats,
                   taken, log, cyc, ticks, sent, timedOut>>

WriterFail(msg, next) ==
    /\ FreeWorker
    /\ ~sinkUp
    /\ log' = log \cup {Line("db", msg, cur.seq)}
    /\ taken' = Outcome("failed")
    /\ cur' = NoReading
    /\ wpc' = next
    /\ UNCHANGED <<codecVars, now, serialVars, co2Vars, queue, sinkUp, stats, cyc,
                   ticks, sent, timedOut>>

\* variant: the error ends the writer (`?` in db_thread)
WriterGetErrReturns ==
    /\ wpc = "get"
    /\ \E msg \in {"Database error", "Timeout."} : WriterFail(msg, "done")

\* pool.get().await is Err (RunError::User or RunError::TimedOut): printed
WriterGetErr ==
    /\ wpc = "get"
    /\ \E msg \in {"Database error", "Timeout."} : WriterFail(msg, "recv")

\* conn.query(..).await is Ok: the row is stored
WriterQueryOk ==
    /\ FreeWorker
    /\ wpc = "query" /\ sinkUp
    /\ stats' = Append(stats, Stored(cur.reading))
    /\ taken' = Outcome("ok")
    /\ cur' = NoReading
    /\ wpc' = "recv"
    /\ UNCHANGED <<codecVars, now, serialVars, co2Vars, queue, sinkUp, log, cyc,
                   ticks, sent, timedOut>>

\* conn.query(..).await is Err: printed
WriterQueryErr ==
    /\ wpc = "query"
    /\ WriterFail("Database error", "recv")

\* ------------------------------------------------------------- environment
SinkFlip ==
    /\ sinkUp' = ~sinkUp
    /\ UNCHANGED <<codecVars, now, serialVars, co2Vars, queue, writerVars, log, cyc,
                   ticks, sent, timedOut>>

\* a task that can run does so before the clock moves
Runnable ==
    \/ FreeWorker /\ spc = "tick" /\ now >= sNext
    \/ FreeWorker /\ spc \in {"send", "read"} /\ now >= sDeadline
    \/ cpc = "tick" /\ now >= cNext
    \/ FreeWorker /\ wpc = "recv" /\ (queue # <<>> \/ Senders = {})

\* the instants after now at which a timer of the program is due.  Between
\* two of them the program reads the clock only to stamp a reading, so the
\* clock is moved from one to the next
Instants ==
    {t \in {sNext, cNext, MaxTime} \cup (IF spc \in {"send", "read"} THEN {sDeadline} ELSE {}) :
        now < t /\ t <= MaxTime}

Second ==
    /\ ~Runnable /\ Instants # {}
    /\ now' = CHOOSE t \in Instants : \A u \in Instants : t <= u
    /\ UNCHANGED <<codecVars, serialVars, co2Vars, queue, writerVars, sinkUp, log,
                   cyc, ticks, sent, timedOut>>

Next ==
    \/ SerialTickOpen \/ SerialTickOpenErr \/ SerialSendOk \/ SerialSendErr
    \/ SerialRecv \/ SerialReadErr \/ SerialEof \/ SerialTimeout
    \/ Co2Tick \/ Co2ReadOk \/ Co2ReadErr
    \/ WriterRecv \/ WriterGetOk \/ WriterGetErr \/ WriterQueryOk \/ WriterQueryErr
    \/ SinkFlip \/ Second

Spec == Init /\ [][Next]_vars

\* ------------------------------------------------------------- CO2 task alone
\* the CO2 task over three ticks of its interval, second by second: the
\* blocking read returns after any number of seconds
Co2Horizon == 22

Co2Init == /\ buf = <<>> /\ hist = <<>>
           /\ StartValues /\ cpc = "tick" /\ sinkUp

\* a second passes, unless the tick is due and the task is waiting for it
Co2Second ==
    /\ now < Co2Horizon
    /\ ~(cpc = "tick" /\ now >= cNext)
    /\ now' = now + 1
    /\ UNCHANGED <<codecVars, serialVars, co2Vars, queue, writerVars, sinkUp, log,
                   cyc, ticks, sent, timedOut>>

Co2Next == Co2Tick \/ Co2ReadOk \/ Co2ReadErr \/ Co2Second

Co2Spec == Co2Init /\ [][Co2Next]_vars

\* ------------------------------------------------------------- decoder runs
CodecInit == /\ buf \in BufsUpTo(MaxLen)
             /\ hist = <<>>
             /\ StartValues /\ cpc = "tick" /\ sinkUp

DecodeCall ==
    /\ Len(hist) < MaxCalls
    /\ hist # <<>> => hist[Len(hist)].ret # OkNone
    /\ LET d == decode(buf)
       IN  /\ buf' = d.src
           /\ hist' = Append(hist, [before |-> buf, ret |-> d.ret, after |-> d.src])
    /\ UNCHANGED <<now, serialVars, co2Vars, queue, writerVars, sinkUp, log, cyc,
                   ticks, sent, timedOut>>

CodecNext == DecodeCall

CodecSpec == CodecInit /\ [][CodecNext]_vars

\* ------------------------------------------------------------- codec claims
Calls == 1..Len(hist)
HasNewline(b) == \E i \in 1..Len(b) : b[i] = NL
\* b is one line, its newline last, followed by rest
SplitsAt(b, n) == /\ n \in 1..Len(b) /\ b[n] = NL
                  /\ \A j \in 1..(n - 1) : b[j] # NL
FirstLine(b) == SubSeq(b, 1, CHOOSE n \in 1..Len(b) : SplitsAt(b, n))
AfterFirstLine(b) == SubSeq(b, 1 + (CHOOSE n \in 1..Len(b) : SplitsAt(b, n)), Len(b))

IsUtf8(line) == \A i \in 1..Len(line) : line[i] # InvalidByte
Tokens(line) == split_whitespace(line)
ParsesAsFloat(tok) == f32_from_str(tok).some
ParsesAsFiniteFloat(tok) == f32_from_str(tok).some /\ IsFinite(f32_from_str(tok).v)
WellFormed(line) == /\ IsUtf8(line)
                    /\ Len(Tokens(line)) >= 2
                    /\ ParsesAsFloat(Tokens(line)[1])
                    /\ ParsesAsFloat(Tokens(line)[2])
Malformed(line) == ~WellFormed(line)

\* C3: a decode call on a buffer holding a newline removes exactly the bytes
\* up to and including the first newline, leaves the later bytes as they
\* were, and returns a reading or an error, never "incomplete"
C3_DecodeRemovesFirstLine ==
    \A k \in Calls :
        LET c == hist[k]
        IN  HasNewline(c.before) =>
              /\ c.ret.tag \in {"OkSome", "Err"}
              /\ \E n \in 1..Len(c.before) :
                    /\ SplitsAt(c.before, n)
                    /\ c.after = SubSeq(c.before, n + 1, Len(c.before))
              /\ (k = Len(hist) => buf = c.after)

C3_Witness ==
    \E k \in Calls :
        /\ HasNewline(hist[k].before)
        /\ HasNewline(hist[k].after)
        /\ Len(hist[k].after) >= 2
        /\ hist[k].ret.tag = "OkSome"

\* C4: a decode call on a buffer holding no newline returns "incomplete"
\* and leaves the buffer as it was
C4_IncompleteKeepsBuffer ==
    \A k \in Calls :
        LET c == hist[k]
        IN  ~HasNewline(c.before) =>
              /\ c.ret = OkNone
              /\ c.after = c.before
              /\ (k = Len(hist) => buf = c.before)

C4_Witness ==
    \E k \in Calls :
        /\ ~HasNewline(hist[k].before)
        /\ Len(hist[k].before) = MaxLen
        /\ hist[k].ret = OkNone

\* C5: a malformed first line (not UTF-8, a token missing, a token that is
\* no float) is answered with the "Invalid string" error and removed, and
\* the next call decodes the line that follows as if the bad one had never
\* been there
C5_MalformedLineConsumed ==
    \A k \in Calls :
        LET c == hist[k]
        IN  (HasNewline(c.before) /\ Malformed(FirstLine(c.before))) =>
              /\ c.ret = Err("Invalid string")
              /\ c.after = AfterFirstLine(c.before)
              /\ (k + 1 \in Calls =>
                    /\ hist[k + 1].before = AfterFirstLine(c.before)
                    /\ (HasNewline(c.after) /\ WellFormed(FirstLine(c.after)) =>
                          LET toks == Tokens(FirstLine(c.after))
                          IN  hist[k + 1].ret =
                                OkSome([humidity |-> f32_from_str(toks[1]).v,
                                        temperature |-> f32_from_str(toks[2]).v])))

C5_Witness ==
    /\ Len(hist) = 2
    /\ ~IsUtf8(FirstLine(hist[1].before))
    /\ hist[1].ret = Err("Invalid string")
    /\ hist[2].ret.tag = "OkSome"
    /\ buf = <<>>

\* C6: a well-formed line decodes to the reading whose humidity is the
\* value of the first token and whose temperature is the value of the second
C6_HumidityFirst ==
    \A k \in Calls :
        LET c == hist[k]
        IN  (HasNewline(c.before) /\ WellFormed(FirstLine(c.before))) =>
              LET toks == Tokens(FirstLine(c.before))
              IN  c.ret = OkSome([humidity |-> f32_from_str(toks[1]).v,
                                  temperature |-> f32_from_str(toks[2]).v])

C6_Witness ==
    \E k \in Calls :
        /\ hist[k].ret.tag = "OkSome"
        /\ hist[k].ret.item.humidity = Norm(11, 0)
        /\ hist[k].ret.item.temperature = Norm(1, 0)

\* C7 (as claimed): a line one of whose first two tokens is not a finite
\* float (unparsable, or inf, infinity, NaN) is answered with the
\* "Invalid string" error, never with a reading
C7_NonFiniteRejected ==
    \A k \in Calls :
        LET c == hist[k]
        IN  (/\ HasNewline(c.before)
             /\ IsUtf8(FirstLine(c.before))
             /\ Len(Tokens(FirstLine(c.before))) >= 2
             /\ \E i \in 1..2 : ~ParsesAsFiniteFloat(Tokens(FirstLine(c.before))[i]))
            => c.ret = Err("Invalid string")

\* ------------------------------------------------------------- system claims
Serial == cyc["serial"]
Finished(c) == c.outcome \notin {"none", "run"}
From(p) == IF p = "serial" THEN "Thermometer" ELSE "Co2Meter"
SentBy(p) == {i \in 1..Len(sent) : sent[i].reading.src = From(p)}
TakenEntries == [i \in 1..Len(taken) |-> taken[i].entry]
PrintedFor(who, ref) == \E l \in log : l.who = who /\ l.ref = ref

\* C1: a serial cycle still running 6 seconds after its start is ended then,
\* with the timeout printed; no Thermometer reading of such a cycle is ever
\* enqueued; and every cycle starts at the instant its tick was scheduled for
\* (a multiple of 10 seconds)
C1_TimeoutEndsCycle ==
    /\ spc \in {"send", "read"} => now <= Serial.start + 6
    /\ Serial.outcome = "timeout" =>
          /\ Serial.end = Serial.start + 6
          /\ Line("serial", "deadline has elapsed", Serial.sched) \in log
          /\ spc = "tick" /\ ~port
    /\ \A i \in SentBy("serial") : sent[i].tick \notin timedOut
    /\ Serial.outcome # "none" =>
          /\ Serial.start = Serial.sched
          /\ Serial.sched % 10 = 0
          /\ Serial.sched = 10 * (ticks["serial"] - 1)

C1_Witness ==
    /\ 0 \in timedOut
    /\ Serial.sched = 10 /\ Serial.start = 10
    /\ Serial.outcome = "ok"

\* C2: a reading whose write failed has its failure printed, is not handed
\* to send_one again and is not left in the queue; after the failure the
\* writer is back at recv(), where the next reading is taken; a write fails
\* only while the sink is down, whatever happened to the reading before it
C2_FailedWriteIsolated ==
    /\ \A i \in 1..Len(taken) :
          taken[i].outcome = "failed" =>
             /\ PrintedFor("db", taken[i].entry.seq)
             /\ \A j \in 1..Len(taken) : j # i => taken[j].entry.seq # taken[i].entry.seq
             /\ \A j \in 1..Len(queue) : queue[j].seq # taken[i].entry.seq
             /\ (i < Len(taken) => taken[i + 1].entry.seq = taken[i].entry.seq + 1)
    /\ wpc \in {"recv", "get", "query"}
    /\ (taken # <<>> /\ taken[Len(taken)].outcome # "pending") =>
          /\ wpc = "recv"
          /\ (queue # <<>> => ENABLED WriterRecv)
    /\ (wpc = "get" /\ sinkUp) => ENABLED WriterGetOk /\ ~ENABLED WriterGetErr
    /\ (wpc = "query" /\ sinkUp) => ENABLED WriterQueryOk /\ ~ENABLED WriterQueryErr
    /\ Len(stats) = Cardinality({i \in 1..Len(taken) : taken[i].outcome = "ok"})

C2_Witness ==
    /\ Len(taken) >= 2
    /\ taken[1].outcome = "failed"
    /\ taken[2].outcome = "ok"
    /\ Len(stats) = 1

\* C8 (as claimed): every serial cycle that failed (open, write or read
\* error, decode error, stream closed, deadline) has a line printed for it,
\* and the loop is back at its tick
C8_EveryFailurePrinted ==
    (Finished(Serial) /\ Serial.outcome # "ok" /\ spc = "tick") =>
        PrintedFor("serial", Serial.sched)

\* C9: in every cycle of either poller the device is read once; the cycle
\* enqueues one reading if the read succeeded and none if it failed or
\* timed out; no tick yields two readings; whatever the other poller does
C9_OneReadingPerTick ==
    \A p \in Pollers :
        /\ cyc[p].attempts <= 1
        /\ Finished(cyc[p]) => cyc[p].attempts = 1
        /\ Cardinality({i \in SentBy(p) : sent[i].tick = cyc[p].sched}) =
              (IF cyc[p].outcome = "ok" THEN 1 ELSE 0)
        /\ \A i, j \in SentBy(p) : i # j => sent[i].tick # sent[j].tick
        /\ Cardinality(SentBy(p)) <= ticks[p]

C9_Witness ==
    /\ cyc["serial"].outcome = "ok" /\ cyc["serial"].sched = 10
    /\ cyc["co2"].outcome = "read failed" /\ cyc["co2"].sched = 10
    /\ Cardinality(SentBy("serial")) = 2
    /\ Cardinality(SentBy("co2")) = 0

\* C10: the readings handed to send_one, followed by those still queued,
\* are the readings enqueued, each once and in the order of the sends
C10_TakenExactlyOnce ==
    /\ sent = TakenEntries \o queue
    /\ \A i \in 1..Len(sent) : sent[i].seq = i
    /\ wpc \in {"get", "query"} => cur = taken[Len(taken)].entry
    /\ wpc = "recv" => cur = NoReading

C10_Witness ==
    /\ Len(taken) = 2
    /\ Len(queue) = 1
    /\ wpc = "query"
    /\ taken[1].entry.reading.src # taken[2].entry.reading.src


TakenBy(p) == {i \in 1..Len(taken) : taken[i].entry.reading.src = From(p)}

\* C11: the readings of one poller are handed to send_one in the order that
\* poller sent them, which is the order of its ticks: a reading is taken
\* only after every earlier reading of the same poller has been taken
C11_PerProducerFifo ==
    \A p \in Pollers :
        /\ \A i, j \in SentBy(p) : i < j => sent[i].tick < sent[j].tick
        /\ \A i, j \in TakenBy(p) :
              i < j => /\ taken[i].entry.seq < taken[j].entry.seq
                       /\ taken[i].entry.tick < taken[j].entry.tick
        /\ \A i \in SentBy(p) : \A j \in TakenBy(p) :
              sent[i].seq < taken[j].entry.seq =>
                 \E k \in TakenBy(p) : k < j /\ taken[k].entry = sent[i]

C11_Witness ==
    /\ Len(taken) = 3
    /\ taken[1].entry.reading.src = "Thermometer"
    /\ taken[2].entry.reading.src = "Co2Meter"
    /\ taken[3].entry.reading.src = "Thermometer"
    /\ taken[3].outcome = "ok"


ArrivingFrames ==
    {d \in {decode(buf \o c) : c \in {b \in WireChunks : Len(buf) + Len(b) <= MaxWire}} :
        d.ret.tag = "OkSome"}

FrameCanArrive == ArrivingFrames # {}

\* the entry the serial poller sends for a decoded frame
SerialEntry(d) ==
    Entry(Thermometer(now, d.ret.item.temperature, d.ret.item.humidity),
          cyc["serial"].sched)

\* C13: a poller whose device read returns a reading can always send it and
\* finish its cycle, whatever the writer is doing and however many readings
\* are queued; once it has sent, it is never found waiting on the channel
C13_SendNeverBlocks ==
    /\ cpc = "read" => ENABLED Co2ReadOk
    /\ spc = "read" =>
          \A d \in ArrivingFrames :
              ENABLED (Send(SerialEntry(d)) /\ EndCycle("ok", 1))
    /\ cyc["co2"].outcome = "ok" => cpc \in {"tick", "read"}
    /\ Serial.outcome = "ok" => spc \in {"tick", "send", "read"}

C13_Witness ==
    /\ wpc = "query" /\ Len(taken) = 1
    /\ Len(queue) = 3
    /\ cyc["co2"].outcome = "ok" /\ cyc["co2"].sched = Interval /\ cpc = "tick"
    /\ Serial.outcome = "ok" /\ Serial.sched = Interval /\ spc = "tick"


\* the taken readings whose write succeeded, in the order of the writes
IsWritten(t) == t.outcome = "ok"
Written == SelectSeq(taken, IsWritten)

\* C14: every stored row carries the time of the reading it was written
\* from, and that time is the instant the poller obtained the value and sent
\* it: the instant its cycle ended, never later than the row's write
C14_StoredTimeIsCaptureTime ==
    /\ Len(stats) = Len(Written)
    /\ \A k \in 1..Len(stats) : stats[k].time = Written[k].entry.reading.time
    /\ \A p \in Pollers :
          cyc[p].outcome = "ok" =>
              \E i \in SentBy(p) :
                  /\ \A j \in SentBy(p) : j <= i
                  /\ sent[i].tick = cyc[p].sched
                  /\ sent[i].reading.time = cyc[p].end
    /\ \A i \in 1..Len(sent) :
          /\ sent[i].reading.time >= sent[i].tick
          /\ sent[i].reading.time <= now

\* the first reading, taken at 0, was stored while a reading sent at 0 and
\* one sent at the next tick waited behind it: its write ended after the tick
C14_Witness ==
    /\ Len(stats) = 1 /\ stats[1].time = 0
    /\ Len(taken) = 1 /\ taken[1].outcome = "ok"
    /\ Len(queue) >= 2 /\ queue[1].reading.time = 0
    /\ \E i \in 1..Len(queue) : queue[i].reading.time = Interval


\* C15 (as claimed): a serial cycle that ends because the stream ended before
\* a complete frame arrived ends with "Read failed", whether no byte or only
\* part of a line had been received
C15_EofIsReadFailed ==
    [][SerialEof => cyc'["serial"].outcome = "Read failed"]_vars


\* C16: whenever the serial poller is at its tick (or gone) no serial port is
\* open: the port is open only inside a running cycle, which opened it, and
\* that cycle is the only one running
C16_PortNotHeldAcrossTicks ==
    /\ spc \in {"tick", "panicked"} => ~port
    /\ port => /\ spc \in {"send", "read"}
               /\ Serial.outcome = "run"
               /\ Serial.start = now \/ now <= sDeadline

\* the first cycle was ended by its deadline and the second by a decode
\* error; the poller is at its tick with no port open
C16_Witness ==
    /\ spc = "tick" /\ ~port
    /\ 0 \in timedOut
    /\ Serial.sched = Interval /\ Serial.outcome = "Invalid string"


\* the writes in flight: the readings handed to send_one whose call has not
\* returned
InFlight == {i \in 1..Len(taken) : taken[i].outcome = "pending"}

\* C17: at most one write is in flight, that of the reading taken last, and
\* exactly while the writer is inside send_one; every row of the sink comes
\* from a write of the writer that has completed
C17_OneWriteInFlight ==
    /\ Cardinality(InFlight) <= 1
    /\ InFlight \subseteq {Len(taken)}
    /\ (InFlight # {}) <=> (wpc \in {"get", "query"})
    /\ (InFlight # {}) <=> (cur # NoReading)
    /\ InFlight # {} => cur = taken[Len(taken)].entry
    /\ Len(stats) = Cardinality({i \in 1..Len(taken) : taken[i].outcome = "ok"})

\* a write is in flight while two more readings wait in the queue, after an
\* earlier write has failed
C17_Witness ==
    /\ wpc = "query" /\ InFlight = {2}
    /\ taken[1].outcome = "failed"
    /\ Len(queue) >= 2


\* C18: the writer's loop never ends, so the receiver is alive at every send:
\* no poller has panicked on its send, and every reading a cycle produced is
\* in the channel's history
C18_SendNeverFails ==
    /\ wpc # "done"
    /\ spc # "panicked" /\ cpc # "panicked"
    /\ \A p \in Pollers : cyc[p].outcome # "panicked"
    /\ \A p \in Pollers : cyc[p].outcome = "ok" =>
          \E i \in SentBy(p) : sent[i].tick = cyc[p].sched
    /\ (wpc = "recv" /\ queue = <<>>) => ~ENABLED WriterRecv

\* the writer waits at recv() on an empty channel, after it has taken every
\* reading sent so far; both pollers have sent since and are at their ticks
C18_Witness ==
    /\ wpc = "recv" /\ queue = <<>>
    /\ Len(sent) >= 3 /\ Len(taken) = Len(sent)
    /\ cyc["co2"].outcome = "ok" /\ cyc["co2"].sched = Interval
    /\ Serial.outcome = "ok" /\ Serial.sched = Interval


\* C19 (as claimed): the co2 of every stats2 row equals the co2 of the
\* Co2Meter reading it was written from
C19_Co2StoredUnchanged ==
    \A k \in 1..Len(stats) :
        Written[k].entry.reading.src = "Co2Meter" =>
            /\ stats[k].table = "stats2"
            /\ stats[k].co2 = Written[k].entry.reading.co2


\* C20 (as claimed): a CO2 device read never starts less than 10 seconds
\* after the start of the read before it
C20_ReadsTenSecondsApart ==
    [][(Co2Tick /\ cyc["co2"].start # -1) =>
           now >= cyc["co2"].start + Interval]_vars

====
